---- MODULE Spec2Model ----
(***************************************************************************)
(* A model of linkerd-tcp's namerd resolver (src/namerd.rs), of the        *)
(* application wiring and supervisor (src/app/mod.rs) and of the balancer  *)
(* waiter queue the wiring configures.                                     *)
(*                                                                         *)
(* Each subsystem has its own specification over its own variables; the    *)
(* variables of the other subsystems are held fixed by that specification. *)
(***************************************************************************)
EXTENDS Integers, Sequences, FiniteSets, TLC

VARIABLES
    \* ---- the resolver stream returned by namerd::resolve ----
    rpc,            \* position of the stream: init, in_flight, body, idle, panicked
    issued,         \* number of requests issued so far (the current one is #issued)
    timerReady,     \* the interval stream's next item, if one is ready: none, tick, err
    ticksTaken,     \* Ok(()) items of the interval stream consumed by `then`
    timerErrsTaken, \* Err(_) items of the interval stream consumed by `then`
    emitted,        \* request numbers whose update the stream yielded, in yield order
    lastEmit,       \* Option of the EndpointSet the stream yielded for request #issued
    lastPoll,       \* the input and the result of the request last issued
    success_count,  \* Stats.success_count
    failure_count,  \* Stats.failure_count
    latencies,      \* number of observations added to Stats.request_latency_ms
    failedPolls,    \* requests that ended in a transport error, bad status or bad body
    \* ---- one supervisor, app::Running ----
    runq,           \* Running.0, the VecDeque of children not yet finished
    registered,     \* the children given to Running::register
    finished,       \* the children whose poll has returned Ready
    runResult,      \* what Running::poll last returned: idle before the first poll
    turnPolls,      \* the child polls of the latest Running::poll, in order
    turns,          \* calls of Running::poll so far
    \* ---- app::configure and the loaders of its results ----
    app,            \* the AppConfig given to configure
    cfgpc,          \* start, configured
    transfer_buf,   \* length of the shared transfer buffer
    admin,          \* the Admin runner: addr, metrics_interval, namerds
    proxies,        \* Proxies.proxies, the VecDeque of Proxy
    loadedNamerds,  \* the drivers Namerd::load has built, in Admin::load's order
    chans,          \* the channels configure made, by number: queue and parked sender
    received,       \* the updates each proxy's receiver has yielded, by proxy
    \* ---- ProxyServer::load of one proxy's server stanzas ----
    servers,        \* ProxyServer.servers
    loadpc,         \* loading, loaded, panicked
    listeners,      \* indexes of the stanzas whose forwarder was registered
    accepted,       \* connections accepted so far, per stanza index
    \* ---- one proxy's balancer ----
    ps_max_waiters, \* ProxyServer.max_waiters
    bal,            \* the balancer: max_waiters, table, waiters, conns, got
    latest,         \* Option of the EndpointSet the balancer reconciled last
    \* ---- one forwarding session ----
    fwd,            \* the session: each direction, each socket's write side, its end
    fwdLog,         \* the session's events, in order
    \* ---- the Proxies supervisor and its proxies' supervisors ----
    supStanzas,     \* the number of server stanzas of each proxy, in order
    suppc,          \* start, running
    supq,           \* the Running of Proxies: the proxies' Runnings not yet finished
    supResult,      \* what core.run's poll of it last returned: idle before the first
    supPolls,       \* the polls of the proxies' Runnings in the latest turn, in order
    supTurns        \* polls of the Proxies supervisor so far

resolverVars == <<rpc, issued, timerReady, ticksTaken, timerErrsTaken, emitted,
                  lastEmit, lastPoll, success_count, failure_count, latencies,
                  failedPolls>>

runVars == <<runq, registered, finished, runResult, turnPolls, turns>>

confVars == <<app, cfgpc, transfer_buf, admin, proxies, loadedNamerds, chans, received>>

loadVars == <<servers, loadpc, listeners, accepted>>

balVars == <<ps_max_waiters, bal, latest>>

fwdVars == <<fwd, fwdLog>>

supVars == <<supStanzas, suppc, supq, supResult, supPolls, supTurns>>

notResolver == <<runVars, confVars, loadVars, balVars, fwdVars, supVars>>

notRunning == <<resolverVars, confVars, loadVars, balVars, fwdVars, supVars>>

notConf == <<resolverVars, runVars, loadVars, balVars, fwdVars, supVars>>

notLoad == <<resolverVars, runVars, confVars, balVars, fwdVars, supVars>>

notBal == <<resolverVars, runVars, confVars, loadVars, fwdVars, supVars>>

notFwd == <<resolverVars, runVars, confVars, loadVars, balVars, supVars>>

notSup == <<resolverVars, runVars, confVars, loadVars, balVars, fwdVars>>

vars == <<resolverVars, runVars, confVars, loadVars, balVars, fwdVars, supVars>>

----------------------------------------------------------------------------
\* Option<T>: None is the empty sequence, Some(x) a one-element sequence.
None == <<>>

Some(x) == <<x>>

is_some(o) == o # <<>>

unwrap_or(o, d) == IF o = <<>> THEN d ELSE o[1]

----------------------------------------------------------------------------
(***************************************************************************)
(* Bounds of the resolver model.                                           *)
(***************************************************************************)
\* Requests one behaviour issues.
MaxPolls == 3

\* Elements of one response's "addrs".
MaxAddrs == 2

(***************************************************************************)
(* Discovery responses.  A body is the sequence of chunks hyper delivers;  *)
(* the chunks' concatenation is the JSON text, modelled as its sequence of *)
(* members: the "type" member, one member per element of "addrs", or text  *)
(* that is not part of a NamerdResponse.                                   *)
(***************************************************************************)
StatusOk == 200

Statuses == {StatusOk, 204, 404, 500}

\* An ip string is modelled as its dot-separated fields.
TypeTok(k) == [t |-> "type", kind |-> k, ip |-> <<>>, port |-> 0, w |-> None]

AddrTok(ip, port, w) == [t |-> "addr", kind |-> "", ip |-> ip, port |-> port, w |-> w]

JunkTok == [t |-> "junk", kind |-> "", ip |-> <<>>, port |-> 0, w |-> None]

AddrToks ==
    {AddrTok(<<10, 0, 0, 1>>, 8080, None),
     AddrTok(<<10, 0, 0, 2>>, 8080, Some(3)),
     AddrTok(<<10, 0, 256>>, 8080, None)}

SeqsUpTo(S, n) == UNION {[1..k -> S] : k \in 0..n}

\* The "type" members of a text: none, one of each kind, or a repeated one.
TypeParts ==
    {<<>>, <<TypeTok("bound"), TypeTok("neg")>>}
        \cup {<<TypeTok(k)>> : k \in {"bound", "neg", "other"}}

\* The texts a server may send: the type, the addresses, then possibly text
\* that is no JSON; or the addresses before the type.
Texts ==
    {ty \o as \o jk : ty \in TypeParts, as \in SeqsUpTo(AddrToks, MaxAddrs),
                      jk \in {<<>>, <<JunkTok>>}}
        \cup {as \o ty : ty \in TypeParts, as \in SeqsUpTo(AddrToks, MaxAddrs)}

\* The ways hyper may deliver a text: in no chunk (an empty text), one, or two.
Chunkings(text) ==
    (IF text = <<>> THEN {<<>>} ELSE {})
        \cup {<<text>>}
        \cup {<<SubSeq(text, 1, k), SubSeq(text, k + 1, Len(text))>> : k \in 0..Len(text)}

----------------------------------------------------------------------------
(***************************************************************************)
(* namerd.rs: the pure functions.                                          *)
(***************************************************************************)
RECURSIVE bytes_in(_)
bytes_in(chunks) ==
    IF chunks = <<>> THEN 0 ELSE Len(Head(chunks)) + bytes_in(Tail(chunks))

RECURSIVE to_buf(_)
to_buf(chunks) ==
    IF chunks = <<>> THEN <<>> ELSE Head(chunks) \o to_buf(Tail(chunks))

\* str::parse::<IpAddr>: four fields, each 0..255, give the address's 32 bits.
ParseIp(s) ==
    IF Len(s) = 4 /\ \A i \in 1..4 : s[i] \in 0..255
    THEN Some(((s[1] * 256 + s[2]) * 256 + s[3]) * 256 + s[4])
    ELSE None

DefaultWeight == 1

WeightedAddr(addr, w) == [addr |-> addr, w |-> w]

SocketAddr(ip, port) == <<ip, port>>

\* The loop of to_weighted_addrs: `na.ip.parse().unwrap()` panics on the first
\* address whose ip does not parse, and nothing is returned.
RECURSIVE to_weighted_addrs_from(_, _)
to_weighted_addrs_from(namerd_addrs, weighted_addrs) ==
    IF namerd_addrs = <<>> THEN [panic |-> FALSE, addrs |-> weighted_addrs]
    ELSE LET na == Head(namerd_addrs)
             ip == ParseIp(na.ip)
         IN  IF ~is_some(ip) THEN [panic |-> TRUE, addrs |-> <<>>]
             ELSE to_weighted_addrs_from(
                      Tail(namerd_addrs),
                      Append(weighted_addrs,
                             WeightedAddr(SocketAddr(ip[1], na.port),
                                          unwrap_or(na.w, DefaultWeight))))

to_weighted_addrs(namerd_addrs) == to_weighted_addrs_from(namerd_addrs, <<>>)

\* json::from_reader::<NamerdResponse>: `type` is required and given once,
\* `addrs` defaults to the empty list, anything else in the text is an error.
from_reader(buf) ==
    LET types == SelectSeq(buf, LAMBDA x : x.t = "type")
    IN  IF Len(types) # 1 \/ \E i \in 1..Len(buf) : buf[i].t = "junk"
        THEN [ok |-> FALSE, kind |-> "", addrs |-> <<>>]
        ELSE [ok |-> TRUE, kind |-> types[1].kind,
              addrs |-> SelectSeq(buf, LAMBDA x : x.t = "addr")]

\* The result of parse_chunks: Option<Vec<WeightedAddr>>, or a panic.
Returned(opt) == [panic |-> FALSE, value |-> opt]

Panicked == [panic |-> TRUE, value |-> None]

\* parse_chunks with the decode error taken for an empty resolution.
parse_chunks_err_as_empty(chunks) ==
    LET result == from_reader(to_buf(chunks))
    IN  IF result.ok /\ result.kind = "bound"
        THEN LET was == to_weighted_addrs(result.addrs)
             IN  IF was.panic THEN Panicked ELSE Returned(Some(was.addrs))
        ELSE Returned(Some(<<>>))

parse_chunks(chunks) ==
    LET result == from_reader(to_buf(chunks))
    IN  IF result.ok /\ result.kind = "bound"
        THEN LET was == to_weighted_addrs(result.addrs)
             IN  IF was.panic THEN Panicked ELSE Returned(Some(was.addrs))
        ELSE IF result.ok /\ result.kind = "neg" THEN Returned(Some(<<>>))
        ELSE IF result.ok THEN Returned(Some(<<>>))
        ELSE Returned(None)

----------------------------------------------------------------------------
(***************************************************************************)
(* namerd.rs: the stream.  resolve() chains the initial request with one   *)
(* request per item of the interval stream and filters the None results.   *)
(***************************************************************************)
Poll(req, outcome, status, text, result) ==
    [req |-> req, outcome |-> outcome, status |-> status, text |-> text,
     result |-> result]

NoPoll == Poll(0, "none", 0, <<>>, None)

\* request(): the lazy future starts the timing and sends the GET.
request ==
    /\ issued' = issued + 1
    /\ lastPoll' = Poll(issued + 1, "pending", 0, <<>>, None)
    /\ lastEmit' = None
    /\ rpc' = "in_flight"

\* The closure of request() that records the stats, then filter_map(|opt| opt).
Completes(outcome, status, text, rsp) ==
    /\ latencies' = latencies + 1
    /\ IF is_some(rsp)
       THEN /\ success_count' = success_count + 1
            /\ failure_count' = failure_count
       ELSE /\ failure_count' = failure_count + 1
            /\ success_count' = success_count
    /\ IF is_some(rsp)
       THEN /\ emitted' = Append(emitted, issued)
            /\ lastEmit' = rsp
       ELSE UNCHANGED <<emitted, lastEmit>>
    /\ lastPoll' = Poll(issued, outcome, status, text, rsp)
    /\ rpc' = "idle"

\* The first poll of the stream: `init`, the head of the chain, is run.
Drive ==
    /\ rpc = "init"
    /\ request
    /\ UNCHANGED <<timerReady, ticksTaken, timerErrsTaken, emitted,
                   success_count, failure_count, latencies, failedPolls>>
    /\ UNCHANGED notResolver

\* The interval timer has its next item ready: a tick or a TimerError.
TimerFire(item) ==
    /\ timerReady = "none"
    /\ rpc # "panicked"
    /\ ticksTaken + timerErrsTaken + 1 < MaxPolls
    /\ timerReady' = item
    /\ UNCHANGED <<rpc, issued, ticksTaken, timerErrsTaken, emitted, lastEmit,
                   lastPoll, success_count, failure_count, latencies, failedPolls>>
    /\ UNCHANGED notResolver

\* NextPoll as `and_then` would have it: a timer error is taken and dropped.
NextPollOnTickOnly ==
    /\ rpc = "idle"
    /\ timerReady # "none"
    /\ timerReady' = "none"
    /\ IF timerReady = "tick"
       THEN /\ request
            /\ ticksTaken' = ticksTaken + 1
            /\ timerErrsTaken' = timerErrsTaken
       ELSE /\ timerErrsTaken' = timerErrsTaken + 1
            /\ UNCHANGED <<rpc, issued, lastPoll, lastEmit, ticksTaken>>
    /\ UNCHANGED <<emitted, success_count, failure_count, latencies, failedPolls>>
    /\ UNCHANGED notResolver

\* NextPoll with the interval's item taken while a request is still pending,
\* as `.map(move |_| request(..))` with the futures run side by side would.
NextPoll_while_pending ==
    /\ rpc \in {"idle", "in_flight", "body"}
    /\ timerReady # "none"
    /\ request
    /\ timerReady' = "none"
    /\ IF timerReady = "tick"
       THEN /\ ticksTaken' = ticksTaken + 1
            /\ timerErrsTaken' = timerErrsTaken
       ELSE /\ timerErrsTaken' = timerErrsTaken + 1
            /\ ticksTaken' = ticksTaken
    /\ UNCHANGED <<emitted, success_count, failure_count, latencies, failedPolls>>
    /\ UNCHANGED notResolver

\* `.then(move |_| request(..))`: the next item of the interval, Ok or Err, is
\* taken once the previous request's future has completed.
NextPoll ==
    /\ rpc = "idle"
    /\ timerReady # "none"
    /\ request
    /\ timerReady' = "none"
    /\ IF timerReady = "tick"
       THEN /\ ticksTaken' = ticksTaken + 1
            /\ timerErrsTaken' = timerErrsTaken
       ELSE /\ timerErrsTaken' = timerErrsTaken + 1
            /\ ticksTaken' = ticksTaken
    /\ UNCHANGED <<emitted, success_count, failure_count, latencies, failedPolls>>
    /\ UNCHANGED notResolver

\* client.get(url) fails: Err(e) => future::ok(None).
GetFails ==
    /\ rpc = "in_flight"
    /\ Completes("transport", 0, <<>>, None)
    /\ failedPolls' = failedPolls + 1
    /\ UNCHANGED <<issued, timerReady, ticksTaken, timerErrsTaken>>
    /\ UNCHANGED notResolver

\* client.get(url) answers: StatusCode::Ok => parse_body, status => None.
GetResponds(status) ==
    /\ rpc = "in_flight"
    /\ IF status = StatusOk
       THEN /\ rpc' = "body"
            /\ lastPoll' = Poll(issued, "pending", status, <<>>, None)
            /\ UNCHANGED <<emitted, lastEmit, success_count, failure_count,
                           latencies, failedPolls>>
       ELSE /\ Completes("status", status, <<>>, None)
            /\ failedPolls' = failedPolls + 1
    /\ UNCHANGED <<issued, timerReady, ticksTaken, timerErrsTaken>>
    /\ UNCHANGED notResolver

\* parse_body: body.collect() fails.
BodyFails ==
    /\ rpc = "body"
    /\ Completes("body_err", StatusOk, <<>>, None)
    /\ failedPolls' = failedPolls + 1
    /\ UNCHANGED <<issued, timerReady, ticksTaken, timerErrsTaken>>
    /\ UNCHANGED notResolver

\* parse_body: body.collect() yields the chunks, which parse_chunks decodes.
BodyCollected(text, chunks) ==
    /\ rpc = "body"
    /\ LET parsed == parse_chunks(chunks)
       IN  IF parsed.panic
           THEN /\ rpc' = "panicked"
                /\ lastPoll' = Poll(issued, "panic", StatusOk, text, None)
                /\ UNCHANGED <<emitted, lastEmit, success_count, failure_count,
                               latencies, failedPolls>>
           ELSE /\ Completes("parsed", StatusOk, text, parsed.value)
                /\ failedPolls' = failedPolls + (IF from_reader(text).ok THEN 0 ELSE 1)
    /\ UNCHANGED <<issued, timerReady, ticksTaken, timerErrsTaken>>
    /\ UNCHANGED notResolver

ResolverInit ==
    /\ rpc = "init"
    /\ issued = 0
    /\ timerReady = "none"
    /\ ticksTaken = 0
    /\ timerErrsTaken = 0
    /\ emitted = <<>>
    /\ lastEmit = None
    /\ lastPoll = NoPoll
    /\ success_count = 0
    /\ failure_count = 0
    /\ latencies = 0
    /\ failedPolls = 0

ResolverNext ==
    \/ Drive
    \/ \E item \in {"tick", "err"} : TimerFire(item)
    \/ NextPoll
    \/ GetFails
    \/ \E status \in Statuses : GetResponds(status)
    \/ BodyFails
    \/ \E text \in Texts : \E chunks \in Chunkings(text) : BodyCollected(text, chunks)

----------------------------------------------------------------------------
(***************************************************************************)
(* app/mod.rs: Running, the supervisor that tracks a list of futures.      *)
(***************************************************************************)
\* Children one supervisor is given.
MaxChildren == 3

\* Calls of Running::poll in one behaviour.
MaxTurns == 3

Children == 1..MaxChildren

\* The io::Errors a child's poll may return.
Errors == {"E1", "E2"}

\* What the poll of a child returns: Ok(NotReady), Ok(Ready(())) or Err(e).
Outcomes == {"NotReady", "Ready"} \cup Errors

ChildPoll(f, out) == [child |-> f, out |-> out]

\* Running::poll's loop with the not-ready child forgotten, not pushed back.
RECURSIVE Running_poll_loop_no_push_back(_, _, _, _)
Running_poll_loop_no_push_back(q, n, outcome, polled) ==
    IF n = 0
    THEN [q |-> q, polled |-> polled, res |-> IF q = <<>> THEN "Ready" ELSE "NotReady"]
    ELSE LET f == Head(q)
             out == outcome[f]
             now == Append(polled, ChildPoll(f, out))
         IN  IF out \in Errors THEN [q |-> Tail(q), polled |-> now, res |-> out]
             ELSE Running_poll_loop_no_push_back(Tail(q), n - 1, outcome, now)

\* Running::poll's loop with a child's error taken for the child's end.
RECURSIVE Running_poll_loop_error_ends_child(_, _, _, _)
Running_poll_loop_error_ends_child(q, n, outcome, polled) ==
    IF n = 0
    THEN [q |-> q, polled |-> polled, res |-> IF q = <<>> THEN "Ready" ELSE "NotReady"]
    ELSE LET f == Head(q)
             out == outcome[f]
             now == Append(polled, ChildPoll(f, out))
         IN  IF out = "NotReady"
             THEN Running_poll_loop_error_ends_child(Append(Tail(q), f), n - 1, outcome, now)
             ELSE Running_poll_loop_error_ends_child(Tail(q), n - 1, outcome, now)

\* `for i in 0..sz`: pop the front child and poll it; `?` returns its error at
\* once (the child is dropped), a not-ready child goes to the back, a finished
\* one is dropped.  After the loop the supervisor is Ready iff none is left.
RECURSIVE Running_poll_loop(_, _, _, _)
Running_poll_loop(q, n, outcome, polled) ==
    IF n = 0
    THEN [q |-> q, polled |-> polled, res |-> IF q = <<>> THEN "Ready" ELSE "NotReady"]
    ELSE LET f == Head(q)
             out == outcome[f]
             now == Append(polled, ChildPoll(f, out))
         IN  IF out \in Errors THEN [q |-> Tail(q), polled |-> now, res |-> out]
             ELSE IF out = "NotReady"
             THEN Running_poll_loop(Append(Tail(q), f), n - 1, outcome, now)
             ELSE Running_poll_loop(Tail(q), n - 1, outcome, now)

\* Running::poll, given what each child's poll returns in this turn.
Running_poll(q, outcome) == Running_poll_loop(q, Len(q), outcome, <<>>)

InQueue(q) == {q[i] : i \in 1..Len(q)}

\* Running::new
RunningInit ==
    /\ runq = <<>>
    /\ registered = {}
    /\ finished = {}
    /\ runResult = "idle"
    /\ turnPolls = <<>>
    /\ turns = 0

\* Running::register, called by the loaders before the supervisor is run.
Register(f) ==
    /\ runResult = "idle"
    /\ f \notin registered
    /\ runq' = Append(runq, f)
    /\ registered' = registered \cup {f}
    /\ UNCHANGED <<finished, runResult, turnPolls, turns>>
    /\ UNCHANGED notRunning

\* One call of Running::poll by the reactor; a future that has returned Ready
\* or an error is not polled again (Runner::run returns core.run's result).
RunningPoll(outcome) ==
    /\ runResult \in {"idle", "NotReady"}
    /\ turns < MaxTurns
    /\ LET r == Running_poll(runq, outcome)
       IN  /\ runq' = r.q
           /\ runResult' = r.res
           /\ turnPolls' = r.polled
           /\ finished' = finished \cup
                  {r.polled[i].child : i \in {j \in 1..Len(r.polled) : r.polled[j].out = "Ready"}}
    /\ turns' = turns + 1
    /\ UNCHANGED registered
    /\ UNCHANGED notRunning

RunningNext ==
    \/ \E f \in Children : Register(f)
    \/ \E outcome \in [InQueue(runq) -> Outcomes] : RunningPoll(outcome)


----------------------------------------------------------------------------
(***************************************************************************)
(* app/mod.rs: configure, and Namerd::load's reading of its stanza.        *)
(***************************************************************************)
\* Proxy stanzas of one configuration.
MaxProxies == 2

DEFAULT_BUFFER_SIZE == 8 * 1024

DEFAULT_MAX_WAITERS == 8

DEFAULT_NAMERD_SECONDS == 60

DEFAULT_METRICS_SECONDS == 10

\* "0.0.0.0:9989".parse().unwrap()
default_admin_addr == SocketAddr(ParseIp(<<0, 0, 0, 0>>)[1], 9989)

\* Duration::from_secs
from_secs(s) == [secs |-> s, nanos |-> 0]

\* The configurations: every setting absent or given.
AdminConfigs ==
    [addr : {None, Some(SocketAddr(ParseIp(<<127, 0, 0, 1>>)[1], 9990))},
     metrics_interval_secs : {None, Some(30)}]

\* Each stanza's namerd names its own path to resolve.
NamerdConfigs(label) == [path : {label}, interval_secs : {None, Some(5)}]

ProxyConfigs(label) ==
    [label : {label}, namerd : NamerdConfigs(label),
     max_waiters : {None, Some(0), Some(2)}]

ProxyConfigLists ==
    UNION {{ps \in [1..n -> UNION {ProxyConfigs(l) : l \in 1..n}] :
                \A i \in 1..n : ps[i].label = i} : n \in 0..MaxProxies}

AppConfigs ==
    [buffer_size : {None, Some(4096)},
     admin : {None} \cup {Some(a) : a \in AdminConfigs},
     proxies : ProxyConfigLists]

\* mpsc::channel(1): the buffer of each channel configure makes.
ChannelBuffer == 1

\* A channel with its one sender: the messages queued and whether the sender
\* is parked.
Channel_new == [queue |-> <<>>, parked |-> FALSE]

\* The loop of configure: proxy_configs.pop() takes the stanzas from the back;
\* iteration k makes the channel k and gives its sender to the Namerd and its
\* receiver to the ProxyServer pushed at the back of the two deques.
RECURSIVE configure_loop(_, _, _, _)
configure_loop(proxy_configs, k, namerds, proxs) ==
    IF proxy_configs = <<>> THEN [namerds |-> namerds, proxies |-> proxs]
    ELSE LET pc == proxy_configs[Len(proxy_configs)]
         IN  configure_loop(
                 SubSeq(proxy_configs, 1, Len(proxy_configs) - 1), k + 1,
                 Append(namerds, [config |-> pc.namerd, sender |-> k]),
                 Append(proxs, [label |-> pc.label, addrs |-> k,
                                max_waiters |-> unwrap_or(pc.max_waiters,
                                                          DEFAULT_MAX_WAITERS)]))

\* configure(app) -> (Admin, Proxies)
configure(a) ==
    LET looped == configure_loop(a.proxies, 1, <<>>, <<>>)
        \* app.admin.as_ref().and_then(|a| a.addr)
        admin_addr == IF a.admin = None THEN None ELSE a.admin[1].addr
        \* app.admin.as_ref().and_then(|a| a.metrics_interval_secs)
        admin_secs == IF a.admin = None THEN None ELSE a.admin[1].metrics_interval_secs
        addr == unwrap_or(admin_addr, default_admin_addr)
        interval_s == unwrap_or(admin_secs, DEFAULT_METRICS_SECONDS)
    IN  [transfer_buf |-> unwrap_or(a.buffer_size, DEFAULT_BUFFER_SIZE),
         admin |-> [addr |-> addr, metrics_interval |-> from_secs(interval_s),
                    namerds |-> looped.namerds],
         proxies |-> looped.proxies]

\* Namerd::load with the metrics default taken for the poll period's.
Namerd_load_metrics_default(namerd) ==
    [sender |-> namerd.sender, path |-> namerd.config.path,
     interval |-> from_secs(unwrap_or(namerd.config.interval_secs, DEFAULT_METRICS_SECONDS)),
     yielded |-> 0, buffered |-> None]

\* Namerd::load: the driver `addrs.forward(sink)`: the path and the poll
\* period of the resolver it builds, the sender the resolver's updates are
\* forwarded to, the number of updates the resolver has yielded and the
\* update Forward holds while the sink is not ready.
Namerd_load(namerd) ==
    [sender |-> namerd.sender, path |-> namerd.config.path,
     interval |-> from_secs(unwrap_or(namerd.config.interval_secs, DEFAULT_NAMERD_SECONDS)),
     yielded |-> 0, buffered |-> None]

NoAdmin == [addr |-> SocketAddr(0, 0), metrics_interval |-> from_secs(0), namerds |-> <<>>]

ConfInit ==
    /\ app \in AppConfigs
    /\ cfgpc = "start"
    /\ transfer_buf = 0
    /\ admin = NoAdmin
    /\ proxies = <<>>
    /\ loadedNamerds = <<>>
    /\ chans = <<>>
    /\ received = <<>>

ConfRest ==
    /\ app = [buffer_size |-> None, admin |-> None, proxies |-> <<>>]
    /\ cfgpc = "start"
    /\ transfer_buf = 0
    /\ admin = NoAdmin
    /\ proxies = <<>>
    /\ loadedNamerds = <<>>
    /\ chans = <<>>
    /\ received = <<>>

Configure ==
    /\ cfgpc = "start"
    /\ LET made == configure(app)
       IN  /\ transfer_buf' = made.transfer_buf
           /\ admin' = made.admin
           /\ proxies' = made.proxies
           /\ chans' = [k \in 1..Len(made.proxies) |-> Channel_new]
           /\ received' = [k \in 1..Len(made.proxies) |-> <<>>]
    /\ cfgpc' = "configured"
    /\ UNCHANGED <<app, loadedNamerds>>
    /\ UNCHANGED notConf

\* One iteration of Admin::load's loop: namerds.pop_front().unwrap().load(..)
AdminLoadNamerd ==
    /\ cfgpc = "configured"
    /\ admin.namerds # <<>>
    /\ loadedNamerds' = Append(loadedNamerds, Namerd_load(Head(admin.namerds)))
    /\ admin' = [admin EXCEPT !.namerds = Tail(admin.namerds)]
    /\ UNCHANGED <<app, cfgpc, transfer_buf, proxies, chans, received>>
    /\ UNCHANGED notConf

ConfNext ==
    \/ Configure
    \/ AdminLoadNamerd

----------------------------------------------------------------------------
(***************************************************************************)
(* The way of an update from a resolver to a balancer: the driver          *)
(* `addrs.forward(sink)` of Namerd::load, the channel, and the receiver    *)
(* `addrs_rx.fuse()` that ProxyServer::load gives to Balancer::new.        *)
(***************************************************************************)
\* Updates one resolver yields.
MaxUpdates == 3

\* The n-th EndpointSet the resolver of a path yields.
Update(path, n) == [path |-> path, n |-> n]

\* Sender::start_send: a parked sender is not ready; otherwise the message is
\* queued, and the sender parks when the queue then exceeds the buffer.
start_send(ch, msg) ==
    IF ch.parked THEN [ready |-> FALSE, ch |-> ch]
    ELSE LET q == Append(ch.queue, msg)
         IN  [ready |-> TRUE, ch |-> [queue |-> q, parked |-> Len(q) > ChannelBuffer]]

\* Receiver::poll with a message queued: it is taken and the sender unparked.
next_message(ch) ==
    [msg |-> Head(ch.queue), ch |-> [queue |-> Tail(ch.queue), parked |-> FALSE]]

\* Forward::poll with the update the sink does not take thrown away.
Forward_poll_drops_when_full(driver, ch, ready) ==
    IF ~ready THEN [driver |-> driver, ch |-> ch]
    ELSE LET sent == start_send(ch, Update(driver.path, driver.yielded + 1))
         IN  [driver |-> [driver EXCEPT !.yielded = @ + 1], ch |-> sent.ch]

\* Forward::poll: the update held back is sent first, and while the sink does
\* not take it the stream is not polled; then the stream is polled, and an
\* update it yields is sent, or held back when the sink is not ready.
Forward_poll(driver, ch, ready) ==
    LET first == IF driver.buffered = None THEN [ready |-> TRUE, ch |-> ch]
                 ELSE start_send(ch, driver.buffered[1])
        item == Update(driver.path, driver.yielded + 1)
        sent == start_send(first.ch, item)
    IN  IF ~first.ready THEN [driver |-> driver, ch |-> ch]
        ELSE IF ~ready
        THEN [driver |-> [driver EXCEPT !.buffered = None], ch |-> first.ch]
        ELSE [driver |-> [driver EXCEPT !.yielded = @ + 1,
                                        !.buffered = IF sent.ready THEN None ELSE Some(item)],
              ch |-> sent.ch]

\* The configurations of the wiring: the settings that do not bear on it absent.
WireConfigs ==
    {a \in AppConfigs :
        /\ a.buffer_size = None
        /\ a.admin = None
        /\ \A i \in 1..Len(a.proxies) :
               a.proxies[i].max_waiters = None /\ a.proxies[i].namerd.interval_secs = None}

WireInit ==
    /\ app \in WireConfigs
    /\ cfgpc = "start"
    /\ transfer_buf = 0
    /\ admin = NoAdmin
    /\ proxies = <<>>
    /\ loadedNamerds = <<>>
    /\ chans = <<>>
    /\ received = <<>>

\* The reactor polls the n-th driver; its resolver has an update ready or not.
ForwardPoll(n, ready) ==
    /\ n \in 1..Len(loadedNamerds)
    /\ ready => loadedNamerds[n].yielded < MaxUpdates
    /\ LET k == loadedNamerds[n].sender
           r == Forward_poll(loadedNamerds[n], chans[k], ready)
       IN  /\ loadedNamerds' = [loadedNamerds EXCEPT ![n] = r.driver]
           /\ chans' = [chans EXCEPT ![k] = r.ch]
    /\ UNCHANGED <<app, cfgpc, transfer_buf, admin, proxies, received>>
    /\ UNCHANGED notConf

\* The balancer of the i-th proxy polls its addrs and is given an update.
Recv(i) ==
    /\ i \in 1..Len(proxies)
    /\ chans[proxies[i].addrs].queue # <<>>
    /\ LET k == proxies[i].addrs
           r == next_message(chans[k])
       IN  /\ received' = [received EXCEPT ![i] = Append(@, r.msg)]
           /\ chans' = [chans EXCEPT ![k] = r.ch]
    /\ UNCHANGED <<app, cfgpc, transfer_buf, admin, proxies, loadedNamerds>>
    /\ UNCHANGED notConf

WireNext ==
    \/ Configure
    \/ AdminLoadNamerd
    \/ \E n \in 1..MaxProxies : \E ready \in BOOLEAN : ForwardPoll(n, ready)
    \/ \E i \in 1..MaxProxies : Recv(i)

----------------------------------------------------------------------------
(***************************************************************************)
(* app/mod.rs: ProxyServer::load and load_cert_resolver.                   *)
(***************************************************************************)
\* Server stanzas of one proxy.
MaxServers == 2

\* Connections one listener accepts in a behaviour.
MaxAccepts == 1

\* identities: Option<HashMap<String, TlsServerIdentity>>, a map by its keys.
ServerConfigs ==
    {[tls |-> FALSE, identities |-> None, default_identity |-> None]}
        \cup [tls : {TRUE},
              identities : {None, Some({}), Some({"example.com"})},
              default_identity : {None, Some("D")}]

\* Sni::new(ids, def): the resolver that picks the identity named by the
\* ClientHello, else the default, else rejects the handshake.
Sni_new(ids, def) == [identities |-> ids, default_identity |-> def]

\* load_cert_resolver: `is_empty` starts as def.is_some() and is and-ed with
\* ids.is_empty() when identities are given; the panic is taken when it is set.
load_cert_resolver(ids, def) ==
    LET is_empty0 == is_some(def)
        is_empty == IF is_some(ids) THEN is_empty0 /\ ids[1] = {} ELSE is_empty0
    IN  IF is_empty THEN [panic |-> TRUE, resolver |-> None]
        ELSE [panic |-> FALSE, resolver |-> Sni_new(ids, def)]

\* The loop of ProxyServer::load over self.servers: each stanza's acceptor is
\* bound and its forwarder registered; a Tls stanza first loads its resolver.
RECURSIVE ProxyServer_load_from(_, _, _)
ProxyServer_load_from(srvs, i, running) ==
    IF i > Len(srvs) THEN [panic |-> FALSE, running |-> running]
    ELSE IF ~srvs[i].tls THEN ProxyServer_load_from(srvs, i + 1, Append(running, i))
    ELSE IF load_cert_resolver(srvs[i].identities, srvs[i].default_identity).panic
    THEN [panic |-> TRUE, running |-> running]
    ELSE ProxyServer_load_from(srvs, i + 1, Append(running, i))

ProxyServer_load(srvs) == ProxyServer_load_from(srvs, 1, <<>>)

LoadInit ==
    /\ servers \in SeqsUpTo(ServerConfigs, MaxServers)
    /\ loadpc = "loading"
    /\ listeners = <<>>
    /\ accepted = <<>>

LoadRest ==
    /\ servers = <<>>
    /\ loadpc = "loading"
    /\ listeners = <<>>
    /\ accepted = <<>>

\* ProxyServer::load, called (through Proxy::load) before the reactor runs.
LoadServers ==
    /\ loadpc = "loading"
    /\ LET got == ProxyServer_load(servers)
       IN  /\ loadpc' = IF got.panic THEN "panicked" ELSE "loaded"
           /\ listeners' = got.running
    /\ accepted' = [i \in 1..Len(servers) |-> 0]
    /\ UNCHANGED servers
    /\ UNCHANGED notLoad

\* A registered forwarder, polled by the running supervisor, accepts a
\* connection on its listener.
Accept(i) ==
    /\ loadpc = "loaded"
    /\ i \in InQueue(listeners)
    /\ accepted[i] < MaxAccepts
    /\ accepted' = [accepted EXCEPT ![i] = accepted[i] + 1]
    /\ UNCHANGED <<servers, loadpc, listeners>>
    /\ UNCHANGED notLoad

LoadNext ==
    \/ LoadServers
    \/ \E i \in 1..Len(servers) : Accept(i)

----------------------------------------------------------------------------
(***************************************************************************)
(* The balancer that ProxyServer::load builds with                         *)
(* Balancer::new(..).into_shared(self.max_waiters, ..): its endpoint       *)
(* table, selection and waiter queue.                                      *)
(***************************************************************************)
\* Connect requests in one behaviour.
MaxConns == 2

\* The largest max_waiters a stanza configures.
MaxWaitersCfg == 1

\* connect failures in a row that make an endpoint Failed
FailureThreshold == 2

Addrs == {"A", "B"}

\* The weights the resolver reports: A's changes between updates, B's does not.
WeightsOf == [a \in Addrs |-> IF a = "A" THEN {1, 2} ELSE {3}]

ConnIds == 1..MaxConns

\* The EndpointSets the resolver may send, de-duplicated: address -> weight.
EndpointSets ==
    UNION {{W \in [S -> {1, 2, 3}] : \A a \in S : W[a] \in WeightsOf[a]} : S \in SUBSET Addrs}

\* The capacity ProxyServer::load hands to into_shared, were it the default.
into_shared_default_waiters(max_waiters) == DEFAULT_MAX_WAITERS

\* ProxyServer::load: `.into_shared(self.max_waiters, handle.clone())`
into_shared_waiters(max_waiters) == max_waiters

Absent ==
    [present |-> FALSE, weight |-> 0, pending |-> 0, active |-> 0,
     consecutive_failures |-> 0, status |-> "Unprobed", tombstoned |-> FALSE]

\* A connect request: its position, the endpoint it holds, whether its
\* selection has been retried, and whether it has been on the waiter queue.
NoConn == [st |-> "new", addr |-> "-", retried |-> FALSE, waited |-> FALSE]

\* A request that has its outcome holds no endpoint any more.
Ended(outcome) == [st |-> outcome, addr |-> "-", retried |-> FALSE, waited |-> FALSE]

Balancer_new(max_waiters) ==
    [max_waiters |-> max_waiters,
     table |-> [a \in Addrs |-> Absent],
     waiters |-> <<>>,
     conns |-> [id \in ConnIds |-> NoConn],
     got |-> [id \in ConnIds |-> 0]]

\* The requester's one-shot completion is sent an outcome: a socket or an error.
Complete(b, id) == [b EXCEPT !.got[id] = @ + 1]

\* Selection, step 1: the entries that may be chosen.
Candidates(b, excluded) ==
    {a \in Addrs : /\ b.table[a].present
                   /\ ~b.table[a].tombstoned
                   /\ b.table[a].status \in {"Ready", "Unprobed"}
                   /\ a \notin excluded}

\* Selection, step 5: the chosen entry's pending is incremented and the
\* connect issued.
StartConnect(b, id, a, retried) ==
    [b EXCEPT !.table[a].pending = @ + 1,
              !.conns[id] = [st |-> "connecting", addr |-> a, retried |-> retried,
                             waited |-> b.conns[id].waited]]

\* An absent (tombstoned) entry is removed once it has drained.
Drained(b, a) ==
    IF b.table[a].tombstoned /\ b.table[a].pending + b.table[a].active = 0
    THEN [b EXCEPT !.table[a] = Absent]
    ELSE b

\* Waiter draining: waiters are dequeued in FIFO order and selection re-run for
\* each while there is a candidate; the draw is any candidate.
RECURSIVE Drain(_)
Drain(b) ==
    IF b.waiters = <<>> \/ Candidates(b, {}) = {} THEN {b}
    ELSE UNION {Drain(StartConnect([b EXCEPT !.waiters = Tail(@)], Head(b.waiters), a, FALSE)) :
                    a \in Candidates(b, {})}

\* Selection, steps 2 to 4, for a new connect request.
Select(b, id) ==
    IF Candidates(b, {}) = {}
    THEN IF Len(b.waiters) < b.max_waiters
         THEN {[b EXCEPT !.waiters = Append(@, id), !.conns[id].st = "waiting",
                         !.conns[id].waited = TRUE]}
         ELSE {Complete([b EXCEPT !.conns[id].st = "rejected"], id)}
    ELSE {StartConnect(b, id, a, FALSE) : a \in Candidates(b, {})}

\* Reconciled with an absent entry that is already tombstoned removed, as if it
\* had drained.
Reconciled_drops_tombstoned(b, S) ==
    [b EXCEPT !.table =
        [a \in Addrs |->
            IF a \in DOMAIN S
            THEN IF b.table[a].present
                 THEN [b.table[a] EXCEPT !.weight = S[a], !.tombstoned = FALSE]
                 ELSE [Absent EXCEPT !.present = TRUE, !.weight = S[a]]
            ELSE IF \/ ~b.table[a].present
                    \/ b.table[a].pending + b.table[a].active = 0
                    \/ b.table[a].tombstoned
                 THEN Absent
                 ELSE [b.table[a] EXCEPT !.tombstoned = TRUE]]]

\* Reconciliation of the table against the EndpointSet S.
Reconciled(b, S) ==
    [b EXCEPT !.table =
        [a \in Addrs |->
            IF a \in DOMAIN S
            THEN IF b.table[a].present
                 THEN [b.table[a] EXCEPT !.weight = S[a], !.tombstoned = FALSE]
                 ELSE [Absent EXCEPT !.present = TRUE, !.weight = S[a]]
            ELSE IF ~b.table[a].present \/ b.table[a].pending + b.table[a].active = 0
                 THEN Absent
                 ELSE [b.table[a] EXCEPT !.tombstoned = TRUE]]]

\* Connected with the attempt still counted as pending.
Connected_keeps_pending(b, id) ==
    LET a == b.conns[id].addr
    IN  Complete([b EXCEPT !.table[a].active = @ + 1,
                           !.table[a].consecutive_failures = 0,
                           !.table[a].status = "Ready",
                           !.conns[id].st = "active",
                           !.conns[id].retried = FALSE], id)

\* A connect has succeeded.
Connected(b, id) ==
    LET a == b.conns[id].addr
    IN  Complete([b EXCEPT !.table[a].pending = @ - 1,
                           !.table[a].active = @ + 1,
                           !.table[a].consecutive_failures = 0,
                           !.table[a].status = "Ready",
                           !.conns[id].st = "active",
                           !.conns[id].retried = FALSE], id)

\* ConnectFailed with the first failure surfaced to the requester although
\* the selection is retried.
ConnectFailed_surfaces_and_retries(b, id) ==
    LET a == b.conns[id].addr
        fails == b.table[a].consecutive_failures + 1
        charged == Drained([b EXCEPT !.table[a].pending = @ - 1,
                                     !.table[a].consecutive_failures = fails,
                                     !.table[a].status =
                                         IF fails >= FailureThreshold THEN "Failed" ELSE @],
                           a)
    IN  IF b.conns[id].retried \/ Candidates(charged, {a}) = {}
        THEN {Complete([charged EXCEPT !.conns[id] = Ended("failed")], id)}
        ELSE {Complete(StartConnect(charged, id, c, TRUE), id) : c \in Candidates(charged, {a})}

\* A connect has failed: the entry is charged, then selection is retried once
\* without the failed address; a second failure is surfaced.
ConnectFailed(b, id) ==
    LET a == b.conns[id].addr
        fails == b.table[a].consecutive_failures + 1
        charged == Drained([b EXCEPT !.table[a].pending = @ - 1,
                                     !.table[a].consecutive_failures = fails,
                                     !.table[a].status =
                                         IF fails >= FailureThreshold THEN "Failed" ELSE @],
                           a)
    IN  IF b.conns[id].retried \/ Candidates(charged, {a}) = {}
        THEN {Complete([charged EXCEPT !.conns[id] = Ended("failed")], id)}
        ELSE {StartConnect(charged, id, c, TRUE) : c \in Candidates(charged, {a})}

\* SessionClosed with the drained tombstoned entry left in the table.
SessionClosed_keeps_tombstoned(b, id) ==
    LET a == b.conns[id].addr
    IN  [b EXCEPT !.table[a].active = @ - 1, !.conns[id] = Ended("closed")]

\* A forwarding session has ended.
SessionClosed(b, id) ==
    LET a == b.conns[id].addr
    IN  Drained([b EXCEPT !.table[a].active = @ - 1, !.conns[id] = Ended("closed")], a)

BalInit ==
    /\ ps_max_waiters \in {unwrap_or(o, DEFAULT_MAX_WAITERS) :
                              o \in {None} \cup {Some(n) : n \in 0..MaxWaitersCfg}}
    /\ bal = Balancer_new(into_shared_waiters(ps_max_waiters))
    /\ latest = None

BalRest ==
    /\ ps_max_waiters = 0
    /\ bal = Balancer_new(0)
    /\ latest = None

\* The balancer takes the next EndpointSet from the resolver's channel.
Reconcile(S) ==
    /\ bal' \in Drain(Reconciled(bal, S))
    /\ latest' = Some(S)
    /\ UNCHANGED ps_max_waiters
    /\ UNCHANGED notBal

\* An accepted connection asks for an upstream.
ConnectRequest(id) ==
    /\ bal.conns[id].st = "new"
    /\ \A j \in ConnIds : j < id => bal.conns[j].st # "new"
    /\ bal' \in Select(bal, id)
    /\ UNCHANGED <<ps_max_waiters, latest>>
    /\ UNCHANGED notBal

ConnectOk(id) ==
    /\ bal.conns[id].st = "connecting"
    /\ bal' \in Drain(Connected(bal, id))
    /\ UNCHANGED <<ps_max_waiters, latest>>
    /\ UNCHANGED notBal

ConnectFail(id) ==
    /\ bal.conns[id].st = "connecting"
    /\ bal' \in ConnectFailed(bal, id)
    /\ UNCHANGED <<ps_max_waiters, latest>>
    /\ UNCHANGED notBal

SessionClose(id) ==
    /\ bal.conns[id].st = "active"
    /\ bal' = SessionClosed(bal, id)
    /\ UNCHANGED <<ps_max_waiters, latest>>
    /\ UNCHANGED notBal

\* The cooldown of a Failed endpoint elapses.
Cooldown(a) ==
    /\ bal.table[a].present
    /\ bal.table[a].status = "Failed"
    /\ bal' \in Drain([bal EXCEPT !.table[a].status = "Unprobed",
                                  !.table[a].consecutive_failures = 0])
    /\ UNCHANGED <<ps_max_waiters, latest>>
    /\ UNCHANGED notBal

\* A waiter's handle is dropped: it leaves the queue.
CancelWaiter(id) ==
    /\ bal.conns[id].st = "waiting"
    /\ bal' = [bal EXCEPT !.waiters = SelectSeq(@, LAMBDA w : w # id),
                          !.conns[id] = Ended("cancelled")]
    /\ UNCHANGED <<ps_max_waiters, latest>>
    /\ UNCHANGED notBal

BalNext ==
    \/ \E S \in EndpointSets : Reconcile(S)
    \/ \E id \in ConnIds : ConnectRequest(id)
    \/ \E id \in ConnIds : ConnectOk(id)
    \/ \E id \in ConnIds : ConnectFail(id)
    \/ \E id \in ConnIds : SessionClose(id)
    \/ \E a \in Addrs : Cooldown(a)
    \/ \E id \in ConnIds : CancelWaiter(id)

----------------------------------------------------------------------------
(***************************************************************************)
(* The forwarder that `forwarder.forward(bal)` runs for each accepted      *)
(* connection: one session copying bytes between the downstream and the    *)
(* upstream socket, in both directions.                                    *)
(***************************************************************************)
\* Reads that yield bytes, per direction, in one session.
MaxReads == 2

Socks == {"downstream", "upstream"}

\* A direction is named by the socket it reads from.
Dirs == Socks

\* The socket a direction writes to.
Opposite(sock) == IF sock = "downstream" THEN "upstream" ELSE "downstream"

FwdEvent(kind, sock) == [kind |-> kind, sock |-> sock]

Forwarder_new ==
    [dir |-> [d \in Dirs |-> "copying"],
     copied |-> [d \in Dirs |-> 0],
     wr_open |-> [k \in Socks |-> TRUE],
     session |-> "open"]

\* Half-close with the whole session ended at the first EOF.
HalfClosed_ends_session(f, d) ==
    [f EXCEPT !.dir[d] = "eof",
              !.wr_open = [k \in Socks |-> FALSE],
              !.session = "done"]

\* Half-close: the direction d has read EOF; the write side of the opposite
\* socket is shut down, and the session is done when both directions are.
HalfClosed(f, d) ==
    [f EXCEPT !.dir[d] = "eof",
              !.wr_open[Opposite(d)] = FALSE,
              !.session = IF f.dir[Opposite(d)] = "eof" THEN "done" ELSE "open"]

FwdInit ==
    /\ fwd = Forwarder_new
    /\ fwdLog = <<>>

FwdRest ==
    /\ fwd = Forwarder_new
    /\ fwdLog = <<>>

\* One read-and-write cycle of the direction d: bytes read from d are written
\* to the opposite socket.
Copy(d) ==
    /\ fwd.session = "open"
    /\ fwd.dir[d] = "copying"
    /\ fwd.copied[d] < MaxReads
    /\ fwd' = [fwd EXCEPT !.copied[d] = @ + 1]
    /\ fwdLog' = Append(fwdLog, FwdEvent("copy", d))
    /\ UNCHANGED notFwd

\* The read of the direction d yields EOF.
Eof(d) ==
    /\ fwd.session = "open"
    /\ fwd.dir[d] = "copying"
    /\ fwd' = HalfClosed(fwd, d)
    /\ fwdLog' = Append(fwdLog, FwdEvent("eof", d))
    /\ UNCHANGED notFwd

\* A read or a write on the socket k fails: the session ends and both sockets
\* are closed.
IoError(k) ==
    /\ fwd.session = "open"
    /\ fwd' = [fwd EXCEPT !.session = "error", !.wr_open = [j \in Socks |-> FALSE]]
    /\ fwdLog' = Append(fwdLog, FwdEvent("error", k))
    /\ UNCHANGED notFwd

FwdNext ==
    \/ \E d \in Dirs : Copy(d)
    \/ \E d \in Dirs : Eof(d)
    \/ \E k \in Socks : IoError(k)

----------------------------------------------------------------------------
(***************************************************************************)
(* app/mod.rs: Proxies, the supervisor of the process.  Proxies::load       *)
(* registers the Running of each proxy, which ProxyServer::load has filled  *)
(* with one forwarder per server stanza; Runner::run gives it to core.run.  *)
(***************************************************************************)
\* Proxies::load: the proxies are taken from the front and registered in that
\* order; the Running of a proxy holds its forwarders in stanza order.
Proxies_load(stanzas) ==
    [i \in 1..Len(stanzas) |-> [label |-> i, running |-> [j \in 1..stanzas[i] |-> j]]]

\* What the poll of a proxy's Running may return, whatever its forwarders do.
ProxyPolls(q) == {Running_poll(q, outcome) : outcome \in [InQueue(q) -> Outcomes]}

ProxyPoll(label, r) == [proxy |-> label, polls |-> r.polled, res |-> r.res]

\* Running::poll of Proxies with a failed proxy dropped and the others kept.
RECURSIVE Proxies_poll_loop_drops_failed(_, _, _)
Proxies_poll_loop_drops_failed(pq, n, polled) ==
    IF n = 0
    THEN {[pq |-> pq, polled |-> polled, res |-> IF pq = <<>> THEN "Ready" ELSE "NotReady"]}
    ELSE LET p == Head(pq)
         IN  UNION {IF r.res = "NotReady"
                    THEN Proxies_poll_loop_drops_failed(
                             Append(Tail(pq), [p EXCEPT !.running = r.q]), n - 1,
                             Append(polled, ProxyPoll(p.label, r)))
                    ELSE Proxies_poll_loop_drops_failed(
                             Tail(pq), n - 1, Append(polled, ProxyPoll(p.label, r))) :
                    r \in ProxyPolls(p.running)}

\* Running::poll of Proxies: each child is the Running of a proxy, whose own
\* poll runs the same loop over its forwarders.  `?` returns the error of a
\* proxy at once; a proxy not ready goes to the back; a finished one is dropped.
RECURSIVE Proxies_poll_loop(_, _, _)
Proxies_poll_loop(pq, n, polled) ==
    IF n = 0
    THEN {[pq |-> pq, polled |-> polled, res |-> IF pq = <<>> THEN "Ready" ELSE "NotReady"]}
    ELSE LET p == Head(pq)
         IN  UNION {IF r.res \in Errors
                    THEN {[pq |-> Tail(pq), polled |-> Append(polled, ProxyPoll(p.label, r)),
                           res |-> r.res]}
                    ELSE IF r.res = "NotReady"
                    THEN Proxies_poll_loop(
                             Append(Tail(pq), [p EXCEPT !.running = r.q]), n - 1,
                             Append(polled, ProxyPoll(p.label, r)))
                    ELSE Proxies_poll_loop(
                             Tail(pq), n - 1, Append(polled, ProxyPoll(p.label, r))) :
                    r \in ProxyPolls(p.running)}

SupInit ==
    /\ supStanzas \in SeqsUpTo(0..MaxServers, MaxProxies)
    /\ suppc = "start"
    /\ supq = <<>>
    /\ supResult = "idle"
    /\ supPolls = <<>>
    /\ supTurns = 0

SupRest ==
    /\ supStanzas = <<>>
    /\ suppc = "start"
    /\ supq = <<>>
    /\ supResult = "idle"
    /\ supPolls = <<>>
    /\ supTurns = 0

\* Runner::run, up to core.run: self.load(core.handle())
ProxiesLoad ==
    /\ suppc = "start"
    /\ supq' = Proxies_load(supStanzas)
    /\ suppc' = "running"
    /\ UNCHANGED <<supStanzas, supResult, supPolls, supTurns>>
    /\ UNCHANGED notSup

\* One poll of the Proxies supervisor by core.run, which returns once the
\* poll is Ready or an error.
ProxiesPoll ==
    /\ suppc = "running"
    /\ supResult \in {"idle", "NotReady"}
    /\ supTurns < MaxTurns
    /\ \E r \in Proxies_poll_loop(supq, Len(supq), <<>>) :
           /\ supq' = r.pq
           /\ supResult' = r.res
           /\ supPolls' = r.polled
    /\ supTurns' = supTurns + 1
    /\ UNCHANGED <<supStanzas, suppc>>
    /\ UNCHANGED notSup

SupNext ==
    \/ ProxiesLoad
    \/ ProxiesPoll

----------------------------------------------------------------------------
(***************************************************************************)
(* The specifications: one per subsystem, the others at rest.              *)
(***************************************************************************)
ResolverSpecInit == ResolverInit /\ RunningInit /\ ConfRest /\ LoadRest /\ BalRest /\ FwdRest /\ SupRest

ResolverSpec == ResolverSpecInit /\ [][ResolverNext]_vars

RunningSpecInit == RunningInit /\ ResolverInit /\ ConfRest /\ LoadRest /\ BalRest /\ FwdRest /\ SupRest

RunningSpec == RunningSpecInit /\ [][RunningNext]_vars

ConfSpecInit == ConfInit /\ ResolverInit /\ RunningInit /\ LoadRest /\ BalRest /\ FwdRest /\ SupRest

ConfSpec == ConfSpecInit /\ [][ConfNext]_vars

LoadSpecInit == LoadInit /\ ResolverInit /\ RunningInit /\ ConfRest /\ BalRest /\ FwdRest /\ SupRest

LoadSpec == LoadSpecInit /\ [][LoadNext]_vars

BalSpecInit == BalInit /\ ResolverInit /\ RunningInit /\ ConfRest /\ LoadRest /\ FwdRest /\ SupRest

BalSpec == BalSpecInit /\ [][BalNext]_vars

WireSpecInit == WireInit /\ ResolverInit /\ RunningInit /\ LoadRest /\ BalRest /\ FwdRest /\ SupRest

WireSpec == WireSpecInit /\ [][WireNext]_vars

FwdSpecInit == FwdInit /\ ResolverInit /\ RunningInit /\ ConfRest /\ LoadRest /\ BalRest /\ SupRest

FwdSpec == FwdSpecInit /\ [][FwdNext]_vars

SupSpecInit ==
    SupInit /\ ResolverInit /\ RunningInit /\ ConfRest /\ LoadRest /\ BalRest /\ FwdRest

SupSpec == SupSpecInit /\ [][SupNext]_vars

----------------------------------------------------------------------------
(***************************************************************************)
(* The resolver's properties.                                              *)
(***************************************************************************)
Range(seq) == {seq[i] : i \in 1..Len(seq)}

Occurrences(seq, x) == Cardinality({i \in 1..Len(seq) : seq[i] = x})

\* The request last issued has ended without a usable response.
PollFailed ==
    \/ lastPoll.outcome \in {"transport", "status", "body_err"}
    \/ lastPoll.outcome = "parsed" /\ ~from_reader(lastPoll.text).ok

\* The request last issued got a 200 whose body decodes as a NamerdResponse.
PollDecoded ==
    /\ lastPoll.outcome \in {"parsed", "panic"}
    /\ lastPoll.status = StatusOk
    /\ from_reader(lastPoll.text).ok

HasInvalidIp(text) ==
    \E i \in 1..Len(text) : text[i].t = "addr" /\ ~is_some(ParseIp(text[i].ip))

\* The EndpointSet a decoded response stands for: its addresses in response
\* order, weight 1.0 where none is given, when bound; the empty set otherwise.
ExpectedSet(text) ==
    LET addrs == SelectSeq(text, LAMBDA x : x.t = "addr")
    IN  IF from_reader(text).kind = "bound"
        THEN [i \in 1..Len(addrs) |->
                 WeightedAddr(SocketAddr(ParseIp(addrs[i].ip)[1], addrs[i].port),
                              IF addrs[i].w = None THEN 1 ELSE addrs[i].w[1])]
        ELSE <<>>

\* C1: a poll that ends in a transport error, a non-success status or a body
\* that does not decode yields no EndpointSet, and every such poll is counted
\* on the failure counter.
C1_FailedPollEmitsNothing ==
    /\ PollFailed => lastPoll.req \notin Range(emitted) /\ lastEmit = None
    /\ failure_count = failedPolls

\* C1 witness: after one update was yielded, a second poll's body failed to
\* decode and was counted.
C1_Witness ==
    /\ lastPoll.req = 2
    /\ lastPoll.outcome = "parsed"
    /\ ~from_reader(lastPoll.text).ok
    /\ emitted = <<1>>
    /\ failure_count = 1

\* C2 (as claimed): every poll answered 200 with a body that decodes yields
\* exactly one EndpointSet, the one the response stands for.
C2_DecodedPollEmitsOneSet ==
    PollDecoded =>
        /\ Occurrences(emitted, lastPoll.req) = 1
        /\ lastEmit = Some(ExpectedSet(lastPoll.text))

\* What the code does for the responses whose ip strings all parse: one
\* EndpointSet per decoded response, as C2 describes.
ValidResponseEmitsOneSet ==
    (PollDecoded /\ ~HasInvalidIp(lastPoll.text)) =>
        /\ Occurrences(emitted, lastPoll.req) = 1
        /\ lastEmit = Some(ExpectedSet(lastPoll.text))

\* C3 (as claimed): whatever the polls' outcomes, the stream is never ended:
\* it is before its first request, in a request, or waiting for the timer.
C3_StreamNeverEnds == rpc \in {"init", "in_flight", "body", "idle"}

\* C4 (as claimed): a bound response with an invalid ip yields no EndpointSet
\* and leaves the resolver going on to its next poll.
C4_InvalidIpFailsResponseOnly ==
    (PollDecoded /\ from_reader(lastPoll.text).kind = "bound"
        /\ HasInvalidIp(lastPoll.text)) =>
        /\ lastPoll.req \notin Range(emitted)
        /\ rpc = "idle"

StrictlyIncreasing(seq) == \A i, j \in 1..Len(seq) : i < j => seq[i] < seq[j]

\* C5 (as claimed): the first request is issued when the stream is first
\* driven, one more per tick of the period timer, and the updates are yielded
\* in request order.
C5_OneRequestPerTick ==
    /\ issued = (IF rpc = "init" THEN 0 ELSE 1 + ticksTaken)
    /\ StrictlyIncreasing(emitted)

\* C5 (amended): the first request is issued when the stream is first driven,
\* one more per item the interval timer yields, a tick or a timer error, and
\* the updates are yielded in request order.
C5_OneRequestPerTimerItem ==
    /\ issued = (IF rpc = "init" THEN 0 ELSE 1 + ticksTaken + timerErrsTaken)
    /\ rpc = "init" => ticksTaken + timerErrsTaken = 0
    /\ StrictlyIncreasing(emitted)
    /\ Range(emitted) \subseteq 1..issued

\* C5 witness: three requests, one after a tick and one after a timer error,
\* two of them answered with an update.
C5_Witness ==
    /\ issued = 3
    /\ ticksTaken = 1
    /\ timerErrsTaken = 1
    /\ Len(emitted) = 2

----------------------------------------------------------------------------
(***************************************************************************)
(* The supervisor's properties.                                            *)
(***************************************************************************)
PolledThisTurn == {turnPolls[i].child : i \in 1..Len(turnPolls)}

ReadyThisTurn ==
    {turnPolls[i].child : i \in {j \in 1..Len(turnPolls) : turnPolls[j].out = "Ready"}}

ErrorsThisTurn ==
    {turnPolls[i].out : i \in {j \in 1..Len(turnPolls) : turnPolls[j].out \in Errors}}

NoDuplicates(q) == \A i, j \in 1..Len(q) : q[i] = q[j] => i = j

\* C6: the supervisor reports Ready only when every registered child has
\* finished and NotReady while one is pending; a child that finishes leaves the
\* others in the queue, and a turn polls every child still in it.
C6_ReadyOnlyWhenAllFinished ==
    /\ runResult = "Ready" => finished = registered /\ runq = <<>>
    /\ (runResult \in {"NotReady", "Ready"} /\ finished # registered)
           => runResult = "NotReady"
    /\ runResult \in {"idle", "NotReady", "Ready"}
           => /\ InQueue(runq) = registered \ finished
              /\ NoDuplicates(runq)
    /\ runResult \in {"NotReady", "Ready"}
           => PolledThisTurn = InQueue(runq) \cup ReadyThisTurn

\* C6 witness: of three children one finished in an earlier turn, one in the
\* latest turn, and the third is still pending and was polled in the latest.
C6_Witness ==
    /\ Cardinality(registered) = 3
    /\ Cardinality(finished) = 2
    /\ Cardinality(ReadyThisTurn) = 1
    /\ Len(turnPolls) = 2
    /\ Len(runq) = 1
    /\ runResult = "NotReady"

\* C7: when a child's poll returns an error, the supervisor's poll returns that
\* error in the same turn, whatever its other children did; and it returns no
\* error that no child returned.
C7_ChildErrorIsReturned ==
    /\ \A i \in 1..Len(turnPolls) :
           turnPolls[i].out \in Errors => runResult = turnPolls[i].out
    /\ runResult \in Errors => runResult \in ErrorsThisTurn

\* C7 witness: the second child polled in a turn returned E2 after a pending
\* first child, with a third child not yet polled; the supervisor returned E2.
C7_Witness ==
    /\ runResult = "E2"
    /\ Len(turnPolls) = 2
    /\ turnPolls[1].out = "NotReady"
    /\ turnPolls[2].out = "E2"
    /\ Len(runq) = 2

----------------------------------------------------------------------------
(***************************************************************************)
(* The properties of configuration and load.                               *)
(***************************************************************************)
\* A Tls stanza that names no identity and no default identity.
NoIdentities(srv) ==
    /\ srv.tls
    /\ srv.default_identity = None
    /\ srv.identities = None \/ srv.identities = Some({})

\* C8 (as claimed): with a Tls stanza that has no identities and no default
\* identity the load fails, and no connection is accepted on that listener.
C8_NoIdentitiesAbortsLoad ==
    \A i \in 1..Len(servers) :
        NoIdentities(servers[i]) =>
            /\ loadpc # "loaded"
            /\ i \notin InQueue(listeners)
            /\ accepted = <<>> \/ accepted[i] = 0

\* The stanza configure made proxies[i] from, and the one whose channel k is.
StanzaOfProxy(i) == app.proxies[proxies[i].label]

StanzaOfChannel(k) == app.proxies[Len(app.proxies) + 1 - k]

\* C9: after configure every setting has its configured value when one is
\* given and otherwise its default: buffer 8192, max_waiters 8, metrics
\* interval 10 s, admin address 0.0.0.0:9989, and each namerd loaded polls
\* every 60 s by default.
C9_SettingsConfiguredOrDefault ==
    cfgpc = "configured" =>
        /\ transfer_buf = (IF app.buffer_size = None THEN 8192 ELSE app.buffer_size[1])
        /\ admin.addr = (IF app.admin = None \/ app.admin[1].addr = None
                         THEN <<0, 9989>> ELSE app.admin[1].addr[1])
        /\ admin.metrics_interval.secs =
               (IF app.admin = None \/ app.admin[1].metrics_interval_secs = None
                THEN 10 ELSE app.admin[1].metrics_interval_secs[1])
        /\ Len(proxies) = Len(app.proxies)
        /\ {proxies[i].label : i \in 1..Len(proxies)} = 1..Len(app.proxies)
        /\ \A i \in 1..Len(proxies) :
               proxies[i].max_waiters =
                   (IF StanzaOfProxy(i).max_waiters = None
                    THEN 8 ELSE StanzaOfProxy(i).max_waiters[1])
        /\ \A k \in 1..Len(loadedNamerds) :
               loadedNamerds[k].interval.secs =
                   (IF StanzaOfChannel(loadedNamerds[k].sender).namerd.interval_secs = None
                    THEN 60
                    ELSE StanzaOfChannel(loadedNamerds[k].sender).namerd.interval_secs[1])

\* C9 witness: two proxies configured and both namerds loaded, with the buffer
\* size and the admin address defaulted, the metrics interval given, and
\* max_waiters and the poll period defaulted in one stanza and given in the
\* other.
C9_Witness ==
    /\ cfgpc = "configured"
    /\ Len(loadedNamerds) = 2
    /\ transfer_buf = 8192
    /\ app.admin # None
    /\ admin.addr = <<0, 9989>>
    /\ admin.metrics_interval.secs = 30
    /\ proxies[1].max_waiters = 8
    /\ proxies[2].max_waiters = 2
    /\ loadedNamerds[1].interval.secs = 60
    /\ loadedNamerds[2].interval.secs = 5

\* C10: the waiter queue is never longer than the proxy's max_waiters, and
\* with max_waiters = 0 no request is ever enqueued.
C10_WaitersWithinMax ==
    /\ Len(bal.waiters) <= ps_max_waiters
    /\ ps_max_waiters = 0 => \A id \in ConnIds : bal.conns[id].st # "waiting"

\* C10 witness: the queue is full at the proxy's max_waiters and a later
\* request, finding no candidate, was rejected.
C10_Witness ==
    /\ ps_max_waiters = 1
    /\ Len(bal.waiters) = 1
    /\ \E id \in ConnIds : bal.conns[id].st = "rejected"

----------------------------------------------------------------------------
(***************************************************************************)
(* The balancer's properties.  Connect requests are numbered in the order  *)
(* they arrive, so of two waiters the one with the smaller number was      *)
(* enqueued first.                                                         *)
(***************************************************************************)
\* The waiter queue holds its requests in arrival order.
WaitersInArrivalOrder == StrictlyIncreasing(bal.waiters)

\* The request id is handed its upstream socket by this step.
HandedNow(id) == bal.conns[id].st = "connecting" /\ bal'.conns[id].st = "active"

\* C11 (as claimed): waiters are served in FIFO order: when a waiter is handed
\* its upstream, no waiter enqueued after it has been handed one before.
C11_WaitersServedFifo ==
    [][\A w1 \in ConnIds :
          (bal.conns[w1].waited /\ HandedNow(w1)) =>
              ~\E w2 \in ConnIds : /\ w2 > w1
                                   /\ bal.conns[w2].waited
                                   /\ bal.conns[w2].st = "active"]_vars

\* C12: a request's one-shot completion receives at most one outcome, an
\* upstream socket or an error: none while the request waits, is being
\* connected or retried, or after it was cancelled, and one once it has been
\* handed its socket or rejected; a waiter is in the queue once.
C12_AtMostOneOutcome ==
    /\ \A id \in ConnIds :
           /\ bal.got[id] <= 1
           /\ bal.conns[id].st \in {"new", "waiting", "connecting", "cancelled"}
                  => bal.got[id] = 0
           /\ bal.conns[id].st \in {"active", "closed", "failed", "rejected"}
                  => bal.got[id] = 1
    /\ NoDuplicates(bal.waiters)
    /\ \A id \in ConnIds : bal.conns[id].st = "waiting" <=> id \in Range(bal.waiters)

\* C12 witness: request 1 waited, was dequeued, had its first connect fail on A
\* and its retry succeed on B, and got the one socket; request 2 waited and
\* was cancelled, and got nothing.
C12_Witness ==
    /\ bal.conns[1].waited
    /\ bal.conns[1].st = "active"
    /\ bal.conns[1].addr = "B"
    /\ bal.table["A"].consecutive_failures = 1
    /\ bal.got[1] = 1
    /\ bal.conns[2].st = "cancelled"
    /\ bal.got[2] = 0

\* The addresses of the latest resolver update; none before the first update.
LatestAddrs == IF latest = None THEN {} ELSE DOMAIN latest[1]

\* C13: the table holds exactly the addresses of the latest update, at the
\* update's weight and whatever their status, and the absent addresses that
\* still have pending + active > 0, which are tombstoned; an absent address
\* with both counters 0 is not in the table.
C13_TableIsLatestPlusDraining ==
    \A a \in Addrs :
        LET e == bal.table[a]
        IN  /\ e.present <=> (a \in LatestAddrs \/ e.pending + e.active > 0)
            /\ (e.present /\ a \in LatestAddrs) =>
                   ~e.tombstoned /\ e.weight = latest[1][a]
            /\ (e.present /\ a \notin LatestAddrs) => e.tombstoned

\* C13 witness: the latest update names A alone; A is Failed and in the table,
\* B is absent from the update and kept, tombstoned, for its open session.
C13_Witness ==
    /\ LatestAddrs = {"A"}
    /\ bal.table["A"].present
    /\ bal.table["A"].status = "Failed"
    /\ bal.table["B"].present
    /\ bal.table["B"].tombstoned
    /\ bal.table["B"].active = 1

\* The requests whose connect attempt is in flight, or established, at a.
Connecting(a) == {id \in ConnIds : bal.conns[id].st = "connecting" /\ bal.conns[id].addr = a}

Sessions(a) == {id \in ConnIds : bal.conns[id].st = "active" /\ bal.conns[id].addr = a}

\* The connect attempts the balancer has initiated and not yet concluded.
Unconcluded == {id \in ConnIds : bal.conns[id].st \in {"connecting", "active"}}

RECURSIVE SumOver(_, _)
SumOver(S, f) ==
    IF S = {} THEN 0 ELSE LET a == CHOOSE x \in S : TRUE IN f[a] + SumOver(S \ {a}, f)

\* C14: pending and active are never negative, the sum of pending + active
\* over the table is the number of connect attempts initiated and not yet
\* concluded, and the sum of active the number of open sessions.
C14_CountersMatchAttempts ==
    /\ \A a \in Addrs : bal.table[a].pending >= 0 /\ bal.table[a].active >= 0
    /\ SumOver(Addrs, [a \in Addrs |-> bal.table[a].pending + bal.table[a].active])
           = Cardinality(Unconcluded)
    /\ SumOver(Addrs, [a \in Addrs |-> bal.table[a].active])
           = Cardinality(UNION {Sessions(a) : a \in Addrs})
    /\ \A a \in Addrs : /\ bal.table[a].pending = Cardinality(Connecting(a))
                         /\ bal.table[a].active = Cardinality(Sessions(a))

\* C14 witness: a connect to A failed and was retried on B, where the session
\* is open, and a second connect is in flight to A.
C14_Witness ==
    /\ bal.table["A"].pending = 1
    /\ bal.table["A"].consecutive_failures = 1
    /\ bal.table["B"].active = 1
    /\ Cardinality(Unconcluded) = 2

\* The request id arrives at the balancer in this step.
ArrivesNow(id) == bal.conns[id].st = "new" /\ bal'.conns[id].st # "new"

\* The request id is rejected in the step it arrives in: its completion gets
\* the error, and neither the queue nor the table changes.
RejectedNow(id) ==
    /\ bal'.conns[id].st = "rejected"
    /\ bal'.got[id] = 1
    /\ bal'.waiters = bal.waiters
    /\ bal'.table = bal.table

\* C15: a request that arrives when there is no candidate and the queue holds
\* the proxy's max_waiters is rejected in that step, without being enqueued
\* and without a connect attempt; after a negative resolution with
\* max_waiters = 0 every arriving request is rejected so; and a session ends
\* only by being closed.
C15_FullQueueRejectsSynchronously ==
    [][/\ \A id \in ConnIds :
             (ArrivesNow(id) /\ Candidates(bal, {}) = {}
                  /\ Len(bal.waiters) >= ps_max_waiters) => RejectedNow(id)
       /\ \A id \in ConnIds :
             (ArrivesNow(id) /\ latest # None /\ LatestAddrs = {}
                  /\ ps_max_waiters = 0) => RejectedNow(id)
       /\ \A id \in ConnIds :
             (bal.conns[id].st = "active" /\ bal'.conns[id] # bal.conns[id])
                 => bal'.conns[id].st = "closed"]_vars

\* C15 witness: max_waiters is 0 and the latest resolution is negative; the
\* session of request 1 is still open on its tombstoned endpoint, and request
\* 2 was rejected.
C15_Witness ==
    /\ ps_max_waiters = 0
    /\ latest # None
    /\ LatestAddrs = {}
    /\ bal.conns[1].st = "active"
    /\ bal.table[bal.conns[1].addr].tombstoned
    /\ bal.conns[2].st = "rejected"
    /\ bal.waiters = <<>>

\* C16: applying an EndpointSet to the balancer and then the same set again
\* leaves the table as the first application made it: the same addresses,
\* weights, counters, statuses and tombstone marks.
C16_ReconcileIdempotent ==
    \A S \in EndpointSets :
        \A once \in Drain(Reconciled(bal, S)) :
            \A twice \in Drain(Reconciled(once, S)) : twice.table = once.table

\* C16 witness: the latest set gave A the weight 2 and no longer names B; A is
\* Failed, B is tombstoned with an open session, and applying the set again
\* gives this very state.
C16_Witness ==
    /\ latest # None
    /\ DOMAIN latest[1] = {"A"}
    /\ bal.table["A"].weight = 2
    /\ bal.table["A"].status = "Failed"
    /\ bal.table["B"].tombstoned
    /\ bal.table["B"].active = 1
    /\ Drain(Reconciled(bal, latest[1])) = {bal}

----------------------------------------------------------------------------
(***************************************************************************)
(* The forwarder's properties.                                             *)
(***************************************************************************)
Logged(kind) == {i \in 1..Len(fwdLog) : fwdLog[i].kind = kind}

\* C17: a session is over only once both directions have read EOF or a socket
\* has failed; while it is open, the write side of a socket is shut down
\* exactly when the direction writing to it has read EOF, and a direction
\* that has not read EOF is still copying.
C17_EndsAfterBothEofOrError ==
    /\ fwd.session = "done" =>
           /\ \A d \in Dirs : fwd.dir[d] = "eof"
           /\ Logged("error") = {}
    /\ fwd.session = "error" <=> Logged("error") # {}
    /\ fwd.session = "open" =>
           /\ \E d \in Dirs : fwd.dir[d] = "copying"
           /\ \A k \in Socks : ~fwd.wr_open[k] <=> fwd.dir[Opposite(k)] = "eof"
    /\ \A i \in Logged("copy") :
           \A j \in Logged("eof") : fwdLog[j].sock = fwdLog[i].sock => i < j

\* C17 witness: the downstream read EOF first; the upstream direction then
\* copied twice more before its own EOF ended the session.
C17_Witness ==
    /\ fwd.session = "done"
    /\ fwdLog = <<FwdEvent("copy", "downstream"), FwdEvent("eof", "downstream"),
                  FwdEvent("copy", "upstream"), FwdEvent("copy", "upstream"),
                  FwdEvent("eof", "upstream")>>

----------------------------------------------------------------------------
(***************************************************************************)
(* The properties of the wiring of resolvers to balancers.                 *)
(***************************************************************************)
\* The Namerds holding the sender of the channel k, loaded or not yet, and the
\* proxies holding its receiver.
SendersOf(k) ==
    {<<"admin", n>> : n \in {j \in 1..Len(admin.namerds) : admin.namerds[j].sender = k}}
        \cup {<<"loaded", n>> : n \in {j \in 1..Len(loadedNamerds) : loadedNamerds[j].sender = k}}

ReceiversOf(k) == {i \in 1..Len(proxies) : proxies[i].addrs = k}

\* The drivers feeding the channel k.
DriversOf(k) == {n \in 1..Len(loadedNamerds) : loadedNamerds[n].sender = k}

\* The first n updates of the resolver of a path, in the order it yields them.
UpdatesOf(path, n) == [j \in 1..n |-> Update(path, j)]

\* C18: every channel has one sender and one receiver; what the balancer of a
\* proxy has received, followed by what its channel holds and by the update
\* its driver holds back, is the sequence of updates yielded by the resolver
\* of that proxy's own discovery stanza, in order, none lost and none twice;
\* and the channel never holds more than its buffer and the sender's slot.
C18_UpdatesReachOwnBalancerInOrder ==
    cfgpc = "configured" =>
        /\ \A k \in 1..Len(chans) :
               /\ Cardinality(SendersOf(k)) = 1
               /\ Cardinality(ReceiversOf(k)) = 1
               /\ Len(chans[k].queue) <= ChannelBuffer + 1
        /\ \A i \in 1..Len(proxies) :
               LET k == proxies[i].addrs
                   path == StanzaOfProxy(i).namerd.path
               IN  /\ DriversOf(k) = {} => received[i] \o chans[k].queue = <<>>
                   /\ \A n \in DriversOf(k) :
                          received[i] \o chans[k].queue \o loadedNamerds[n].buffered
                              = UpdatesOf(path, loadedNamerds[n].yielded)

\* C18 witness: with two proxies, the resolver of the second stanza has
\* yielded three updates while its balancer took none: two are in the channel
\* and the third is held back by the driver; the other balancer has received
\* its own resolver's first update.
C18_Witness ==
    /\ cfgpc = "configured"
    /\ Len(proxies) = 2
    /\ \E i, j \in 1..2 :
           /\ StanzaOfProxy(i).label = 2
           /\ received[i] = <<>>
           /\ chans[proxies[i].addrs].queue = <<Update(2, 1), Update(2, 2)>>
           /\ \E n \in DriversOf(proxies[i].addrs) :
                  loadedNamerds[n].buffered = Some(Update(2, 3))
           /\ received[j] = <<Update(1, 1)>>

----------------------------------------------------------------------------
(***************************************************************************)
(* More properties of the load.                                            *)
(***************************************************************************)
\* A Tls stanza that configures an identity: a default one, a named one, or both.
HasIdentity(srv) ==
    /\ srv.tls
    /\ \/ srv.default_identity # None
       \/ srv.identities # None /\ srv.identities[1] # {}

\* C19 (as claimed): when every Tls stanza of a proxy configures at least one
\* identity, a default identity alone included, the load does not abort and a
\* listener is registered for every stanza.
C19_ConfiguredIdentityLoads ==
    (loadpc # "loading" /\ \A i \in 1..Len(servers) :
                               servers[i].tls => HasIdentity(servers[i])) =>
        /\ loadpc = "loaded"
        /\ listeners = [i \in 1..Len(servers) |-> i]

----------------------------------------------------------------------------
(***************************************************************************)
(* More properties of the resolver.                                        *)
(***************************************************************************)
\* C20: at most one request is pending at any time: every request issued
\* before the latest has completed, its body collected and decoded and its
\* latency recorded; a request is pending exactly while the stream is in its
\* GET or its body; and the updates are yielded in request order.
C20_OneRequestInFlight ==
    /\ issued - latencies \in {0, 1}
    /\ rpc \in {"in_flight", "body"} => issued = latencies + 1
    /\ rpc \in {"init", "idle"} => issued = latencies
    /\ lastPoll.outcome = "pending" <=> rpc \in {"in_flight", "body"}
    /\ StrictlyIncreasing(emitted)

\* C20 witness: the second request is still collecting its body when the next
\* item of the interval is ready; no third request has been issued.
C20_Witness ==
    /\ rpc = "body"
    /\ timerReady = "tick"
    /\ issued = 2
    /\ latencies = 1
    /\ ticksTaken + timerErrsTaken = 1

----------------------------------------------------------------------------
(***************************************************************************)
(* The properties of the Proxies supervisor.                               *)
(***************************************************************************)
\* The errors the forwarders returned in the latest turn.
ForwarderErrors ==
    UNION {{supPolls[i].polls[j].out : j \in 1..Len(supPolls[i].polls)} \cap Errors :
               i \in 1..Len(supPolls)}

\* C21: when a forwarder of a proxy returns an error, the proxy's supervisor
\* returns it and so does, in the same turn, the Proxies supervisor, whose
\* run is then over for every proxy; no forwarder of that proxy and no proxy
\* queued after the failing one is polled in that turn; and the supervisor
\* returns no error that no forwarder returned.
C21_ForwarderErrorEndsAllProxies ==
    /\ \A i \in 1..Len(supPolls) :
           \A j \in 1..Len(supPolls[i].polls) :
               supPolls[i].polls[j].out \in Errors =>
                   /\ supPolls[i].res = supPolls[i].polls[j].out
                   /\ supResult = supPolls[i].polls[j].out
                   /\ j = Len(supPolls[i].polls)
                   /\ i = Len(supPolls)
    /\ supResult \in Errors => supResult \in ForwarderErrors /\ ~ENABLED ProxiesPoll
    /\ supResult \in {"idle", "NotReady", "Ready"} => ForwarderErrors = {}

\* C21 witness: two proxies of two forwarders each; in the second turn the
\* first forwarder of proxy 1 returned E2, and neither its second forwarder
\* nor proxy 2 was polled; Proxies returned E2.
C21_Witness ==
    /\ supStanzas = <<2, 2>>
    /\ supTurns = 2
    /\ supResult = "E2"
    /\ supPolls = <<[proxy |-> 1, polls |-> <<ChildPoll(1, "E2")>>, res |-> "E2"]>>
    /\ Len(supq) = 1
    /\ supq[1].label = 2

====
